---- MODULE Spec2Model ----
(***************************************************************************)
(* zwift_training.ipynb: get_record_data and get_dataframe, which decode a *)
(* FIT activity file into a per-second table of ride metrics.              *)
(*                                                                         *)
(* A FIT file is the sequence of frames that fitdecode.FitReader yields,   *)
(* followed either by a clean end of stream or by a decoding error.  Field *)
(* values are coded as naturals (2.41 as 241, 6.2 as 62, a timestamp by    *)
(* its seconds); Null codes None / NaN.  Python objects that are mutated   *)
(* in place (the record_data list, the DataFrame) live in heaps indexed by *)
(* references, so that aliasing between calls is expressible.              *)
(***************************************************************************)
EXTENDS Integers, Sequences, FiniteSets, TLC

VARIABLES fname, pc, fit_file, record_data, lists, record_df, tables

vars == <<fname, pc, fit_file, record_data, lists, record_df, tables>>

\* ------------------------------------------------------------------ bounds

\* Longest generated file, in frames.
MaxLen == 3

\* Longest generated file when two calls run interleaved.
PairMaxLen == 2

\* ------------------------------------------------------------ program data

RECORD_COLUMN_NAMES ==
    <<"timestamp", "speed", "distance", "altitude", "power", "grade", "cadence">>

\* None in a dict, None / NaN in a DataFrame cell.
Null == -1

\* The value a caller writes into a cell of a table it was handed.
Edited == 999

\* The two invocations of get_dataframe (one per entry of `files`).
Calls == {1, 2}

Range(s) == {s[i] : i \in 1..Len(s)}

EmptyDict == [k \in {} |-> Null]

\* ------------------------------------------------------------------ frames

\* A definition message: not a FitDataMessage, although its name is 'record'.
DefRecord == [kind |-> "definition", name |-> "record", fields |-> EmptyDict]

FileId ==
    [kind |-> "data", name |-> "file_id",
     fields |-> [serial_number |-> 7, time_created |-> 42]]

\* An event carries a timestamp, a listed field, on a message that is no record.
Event ==
    [kind |-> "data", name |-> "event",
     fields |-> [timestamp |-> 53, event_type |-> 0]]

RecA ==
    [kind |-> "data", name |-> "record",
     fields |-> [timestamp |-> 53, distance |-> 241, altitude |-> 62,
                 power |-> 45, cadence |-> 24]]

RecB ==
    [kind |-> "data", name |-> "record",
     fields |-> [timestamp |-> 53, distance |-> 428, altitude |-> 62,
                 power |-> 45, cadence |-> 24]]

RecC ==
    [kind |-> "data", name |-> "record",
     fields |-> [timestamp |-> 55, power |-> 79]]

\* speed and grade are present with the value None, as in the printed tables.
RecNone ==
    [kind |-> "data", name |-> "record",
     fields |-> [timestamp |-> 50, speed |-> Null, distance |-> 667,
                 grade |-> Null, heart_rate |-> 120]]

\* A record none of whose fields is a listed one.
RecOther ==
    [kind |-> "data", name |-> "record",
     fields |-> [heart_rate |-> 120, temperature |-> 21]]

Frames == {DefRecord, FileId, Event, RecA, RecB, RecC, RecNone, RecOther}

PairFrames == {Event, RecA, RecC}

SeqsUpTo(S, n) == UNION {[1..k -> S] : k \in 0..n}

ScenarioFrames == <<FileId, RecA, RecB, RecC, Event>>

\* ok = FALSE: the decoder fails once the frames have been yielded (truncated
\* stream, CRC mismatch; a corrupt header when there are no frames).
Files == [frames : SeqsUpTo(Frames, MaxLen) \cup {ScenarioFrames}, ok : BOOLEAN]

PairFiles == [frames : SeqsUpTo(PairFrames, PairMaxLen), ok : BOOLEAN]

NoFile == [frames |-> <<>>, ok |-> TRUE]

NoTable == [columns |-> <<>>, rows |-> <<>>]

\* ---------------------------------------------------------- fitdecode frame

has_field(frame, field) == field \in DOMAIN frame.fields

get_value(frame, field) == frame.fields[field]

\* --------------------------------------------------------- get_record_data

Put(data, field, value) ==
    [k \in DOMAIN data \cup {field} |-> IF k = field THEN value ELSE data[k]]

RECURSIVE ExtractFrom(_, _, _)
ExtractFrom(frame, i, data) ==
    IF i > Len(RECORD_COLUMN_NAMES) THEN data
    ELSE LET field == RECORD_COLUMN_NAMES[i]
         IN  ExtractFrom(frame, i + 1,
                 IF has_field(frame, field)
                 THEN Put(data, field, get_value(frame, field))
                 ELSE data)

RECURSIVE ExtractAllFrom(_, _, _)
ExtractAllFrom(frame, i, data) ==
    IF i > Len(RECORD_COLUMN_NAMES) THEN data
    ELSE LET field == RECORD_COLUMN_NAMES[i]
         IN  ExtractAllFrom(frame, i + 1,
                 Put(data, field,
                     IF has_field(frame, field) THEN get_value(frame, field)
                     ELSE Null))

get_record_data_nulls(frame) == ExtractAllFrom(frame, 1, EmptyDict)

get_record_data(frame) == ExtractFrom(frame, 1, EmptyDict)

\* ------------------------------------------------------------------ pandas

\* Columns in order of first appearance of the keys: what pandas infers when
\* no columns= argument is given.
RECURSIVE SeenColumns(_, _, _)
SeenColumns(data, i, columns) ==
    IF i > Len(data) THEN SelectSeq(RECORD_COLUMN_NAMES,
                                    LAMBDA c : c \in columns)
    ELSE SeenColumns(data, i + 1, columns \cup DOMAIN data[i])

MakeFrame(data, columns) ==
    [columns |-> columns,
     rows |-> [i \in 1..Len(data) |->
                 [c \in Range(columns) |->
                     IF c \in DOMAIN data[i] THEN data[i][c] ELSE Null]]]

DataFrameInferred(data, columns) ==
    MakeFrame(data, SeenColumns(data, 1, {}))

\* pd.DataFrame(data, columns=columns) on a list of dicts.
DataFrame(data, columns) == MakeFrame(data, columns)

IndexFromOne(i) == i

\* The RangeIndex label of the i-th row (i counted from 1).
IndexLabel(i) == i - 1

\* df.reset_index(inplace=True): the index becomes the first column, 'index'.
reset_index(df) ==
    [columns |-> <<"index">> \o df.columns,
     rows |-> [i \in 1..Len(df.rows) |->
                 [c \in {"index"} \cup DOMAIN df.rows[i] |->
                     IF c = "index" THEN IndexLabel(i) ELSE df.rows[i][c]]]]

\* Without inplace=True rename returns a copy and leaves df as it was.
rename_copy(df, old, new) == df

\* df.rename(columns={old: new}, inplace=True)
rename(df, old, new) ==
    [columns |-> [j \in 1..Len(df.columns) |->
                    IF df.columns[j] = old THEN new ELSE df.columns[j]],
     rows |-> [i \in 1..Len(df.rows) |->
                 [c \in {IF k = old THEN new ELSE k : k \in DOMAIN df.rows[i]} |->
                     IF c = new /\ old \in DOMAIN df.rows[i]
                     THEN df.rows[i][old] ELSE df.rows[i][c]]]]

\* ------------------------------------------------------------ get_dataframe

IsNamedRecord(frame) == frame.name = "record"

\* isinstance(frame, FitDataMessage) and frame.name == 'record'
IsRecord(frame) == frame.kind = "data" /\ frame.name = "record"

Prepend(list, row) == <<row>> \o list

\* record_data.append(single_record_data)
AppendRow(list, row) == Append(list, row)

SkipOne(pos) == pos + 2

\* The iterator hands out the next frame: the read position moves by one.
NextPos(pos) == pos + 1

SharedList(c) == 1

\* record_data = []: a list object of this call's own.
NewList(c) == c

SharedFrame(c) == 1

\* pd.DataFrame(...): a DataFrame object of this call's own.
NewFrame(c) == c

LeaveOpenOnError(reader, error) ==
    [reader EXCEPT !.state = IF error THEN @ ELSE "closed", !.error = error]

\* Leaving the with block closes the reader, whether or not an error is in
\* flight.
ExitWith(reader, error) == [reader EXCEPT !.state = "closed", !.error = error]

Suppressed == "closed"

\* FitReader.__exit__ does not suppress the error: the call ends raising it.
AfterFitError == "raised"

\* record_data = [] ; with fitdecode.FitReader(fname) as fit_file:
Call(c) ==
    /\ pc[c] = "ready"
    /\ record_data' = [record_data EXCEPT ![c] = NewList(c)]
    /\ lists' = [lists EXCEPT ![NewList(c)] = <<>>]
    /\ fit_file' = [fit_file EXCEPT ![c] = [state |-> "streaming", pos |-> 0,
                                            error |-> FALSE]]
    /\ pc' = [pc EXCEPT ![c] = "streaming"]
    /\ UNCHANGED <<fname, record_df, tables>>

\* One iteration of `for frame in fit_file`.
ReadFrame(c) ==
    /\ pc[c] = "streaming"
    /\ fit_file[c].state = "streaming"
    /\ fit_file[c].pos < Len(fname[c].frames)
    /\ LET frame == fname[c].frames[fit_file[c].pos + 1]
       IN  /\ fit_file' = [fit_file EXCEPT ![c].pos = NextPos(@)]
           /\ lists' = IF IsRecord(frame)
                       THEN [lists EXCEPT ![record_data[c]] =
                                AppendRow(@, get_record_data(frame))]
                       ELSE lists
    /\ UNCHANGED <<fname, pc, record_data, record_df, tables>>

\* The iterator is exhausted: the with block is left normally.
EndOfStream(c) ==
    /\ pc[c] = "streaming"
    /\ fit_file[c].state = "streaming"
    /\ fit_file[c].pos = Len(fname[c].frames)
    /\ fname[c].ok
    /\ fit_file' = [fit_file EXCEPT ![c] = ExitWith(@, FALSE)]
    /\ pc' = [pc EXCEPT ![c] = "closed"]
    /\ UNCHANGED <<fname, record_data, lists, record_df, tables>>

\* The decoder raises while the next frame is read: the with block is left
\* with the error in flight.
FitError(c) ==
    /\ pc[c] = "streaming"
    /\ fit_file[c].state = "streaming"
    /\ fit_file[c].pos = Len(fname[c].frames)
    /\ ~fname[c].ok
    /\ fit_file' = [fit_file EXCEPT ![c] = ExitWith(@, TRUE)]
    /\ pc' = [pc EXCEPT ![c] = AfterFitError]
    /\ UNCHANGED <<fname, record_data, lists, record_df, tables>>

\* record_df = pd.DataFrame(...); reset_index; rename; return record_df
BuildFrame(c) ==
    /\ pc[c] = "closed"
    /\ tables' = [tables EXCEPT ![NewFrame(c)] =
                    rename(reset_index(DataFrame(lists[record_data[c]],
                                                 RECORD_COLUMN_NAMES)),
                           "index", "second")]
    /\ record_df' = [record_df EXCEPT ![c] = NewFrame(c)]
    /\ pc' = [pc EXCEPT ![c] = "returned"]
    /\ UNCHANGED <<fname, fit_file, record_data, lists>>

\* The caller changes a cell of the table it was handed.
EditTable(c) ==
    /\ pc[c] = "returned"
    /\ \E i \in 1..Len(tables[record_df[c]].rows) :
          tables' = [tables EXCEPT ![record_df[c]].rows[i]["power"] = Edited]
    /\ pc' = [pc EXCEPT ![c] = "edited"]
    /\ UNCHANGED <<fname, fit_file, record_data, lists, record_df>>

Step(c) ==
    \/ Call(c)
    \/ ReadFrame(c)
    \/ EndOfStream(c)
    \/ FitError(c)
    \/ BuildFrame(c)

Next == \E c \in Calls : Step(c) \/ EditTable(c)

Idle ==
    /\ fit_file = [c \in Calls |-> [state |-> "unopened", pos |-> 0,
                                    error |-> FALSE]]
    /\ record_data = [c \in Calls |-> c]
    /\ lists = [c \in Calls |-> <<>>]
    /\ record_df = [c \in Calls |-> c]
    /\ tables = [c \in Calls |-> NoTable]

\* One call, on any file.
Init ==
    /\ \E f \in Files : fname = [c \in Calls |-> IF c = 1 THEN f ELSE NoFile]
    /\ pc = [c \in Calls |-> IF c = 1 THEN "ready" ELSE "unused"]
    /\ Idle

\* Two calls, on any two files, in any interleaving.
InitPair ==
    /\ fname \in [Calls -> PairFiles]
    /\ pc = [c \in Calls |-> "ready"]
    /\ Idle

Spec == Init /\ [][Next]_vars

SpecPair == InitPair /\ [][Next]_vars

\* The code is sequential: a call that can take a step takes it.
FairSpec == Init /\ [][Next]_vars /\ \A c \in Calls : WF_vars(Step(c))

\* ------------------------------------------------------------------ claims

Listed ==
    {"timestamp", "speed", "distance", "altitude", "power", "grade", "cadence"}

\* The messages of category "record", in file order.
RecordMessages(frames) ==
    SelectSeq(frames, LAMBDA m : m.kind = "data" /\ m.name = "record")

Prefix(frames, n) == SubSeq(frames, 1, n)

Table(c) == tables[record_df[c]]

Returned(c) == pc[c] = "returned"

\* C1: the returned table has exactly as many rows as the file has messages
\* of category "record"; other categories and non-data frames add no row.
C1_RowCount ==
    \A c \in Calls :
        Returned(c) =>
            Len(Table(c).rows) =
                Cardinality({i \in 1..Len(fname[c].frames) :
                                /\ fname[c].frames[i].kind = "data"
                                /\ fname[c].frames[i].name = "record"})

C1_Witness ==
    /\ Returned(1)
    /\ Len(Table(1).rows) >= 1
    /\ \E i, j \in 1..Len(fname[1].frames) :
          /\ fname[1].frames[i].kind # "data"
          /\ fname[1].frames[j].kind = "data"
          /\ fname[1].frames[j].name # "record"

\* C2: row i (from 0) of the returned table has second = i, whatever the
\* timestamps of the record messages are.
C2_IndexContiguous ==
    \A c \in Calls :
        Returned(c) =>
            \A i \in 1..Len(Table(c).rows) : Table(c).rows[i]["second"] = i - 1

\* Decreasing timestamps, then a record without a timestamp.
C2_Witness ==
    /\ Returned(1)
    /\ fname[1].frames = <<RecC, RecA, RecOther>>
    /\ Len(Table(1).rows) = 3

\* C3: the returned table has exactly the 8 columns second, timestamp, speed,
\* distance, altitude, power, grade, cadence, in that order; every row has a
\* cell for each; the cell of a field absent on the message is null; and a
\* well-formed file never ends in a failure.
C3_Columns ==
    \A c \in Calls :
        /\ fname[c].ok => pc[c] # "raised"
        /\ Returned(c) =>
            /\ Table(c).columns =
                  <<"second", "timestamp", "speed", "distance", "altitude",
                    "power", "grade", "cadence">>
            /\ \A i \in 1..Len(Table(c).rows) :
                  /\ DOMAIN Table(c).rows[i] = Listed \cup {"second"}
                  /\ \A n \in Listed :
                        n \notin DOMAIN RecordMessages(fname[c].frames)[i].fields
                            => Table(c).rows[i][n] = -1

\* A file with messages but no record message.
C3_WitnessEmpty ==
    /\ Returned(1)
    /\ Len(fname[1].frames) > 0
    /\ Table(1).rows = <<>>
    /\ Len(Table(1).columns) = 8

\* C4: row i is built from the i-th record message in file order and holds
\* that message's value for every listed field present on it; nothing is
\* sorted or deduplicated.
C4_RowOrder ==
    \A c \in Calls :
        Returned(c) =>
            LET msgs == RecordMessages(fname[c].frames)
            IN  /\ Len(Table(c).rows) = Len(msgs)
                /\ \A i \in 1..Len(msgs) :
                      \A n \in Listed \cap DOMAIN msgs[i].fields :
                          Table(c).rows[i][n] = msgs[i].fields[n]

\* Out of timestamp order, and the same record twice.
C4_Witness ==
    /\ Returned(1)
    /\ fname[1].frames = <<RecC, RecA, RecA>>
    /\ Len(Table(1).rows) = 3

\* C5: when the stream fails to parse, the call ends raising the error: it
\* never reaches the table construction and no table exists.
C5_ErrorPropagates ==
    \A c \in Calls :
        ~fname[c].ok =>
            /\ pc[c] \notin {"closed", "returned", "edited"}
            /\ fit_file[c].state = "closed" =>
                  pc[c] = "raised" /\ fit_file[c].error
            /\ tables[c] = NoTable

\* The failure came after two record messages had been read.
C5_Witness ==
    /\ pc[1] = "raised"
    /\ ~fname[1].ok
    /\ Len(lists[record_data[1]]) = 2

\* C6: a call that opened the file closes it, on normal completion and on an
\* error alike: the open stream always gets closed, and no call has ended
\* with it open.
C6_AlwaysClosed ==
    \A c \in Calls :
        /\ [](pc[c] \in {"closed", "returned", "edited", "raised"}
                 => fit_file[c].state = "closed")
        /\ (fit_file[c].state = "streaming") ~> (fit_file[c].state = "closed")

C6_Witness ==
    /\ pc[1] = "raised"
    /\ fit_file[1].state = "closed"
    /\ fit_file[1].pos >= 1

\* C7: get_record_data maps exactly the listed names present on the message,
\* each to the message's value; absent names are left out, fields outside
\* the list never appear.
C7_ExtractFields ==
    \A c \in Calls :
        pc[c] \in {"streaming", "closed", "raised"} =>
            LET msgs == RecordMessages(Prefix(fname[c].frames, fit_file[c].pos))
                data == lists[record_data[c]]
            IN  /\ Len(data) = Len(msgs)
                /\ \A i \in 1..Len(data) :
                      /\ DOMAIN data[i] =
                            {n \in Listed : n \in DOMAIN msgs[i].fields}
                      /\ \A n \in DOMAIN data[i] : data[i][n] = msgs[i].fields[n]

\* A record with a listed field present as None, listed fields absent and a
\* field outside the list; then a record with no listed field at all.
C7_Witness ==
    /\ pc[1] = "streaming"
    /\ fit_file[1].pos = 2
    /\ Prefix(fname[1].frames, 2) = <<RecNone, RecOther>>
    /\ lists[record_data[1]][2] = EmptyDict
    /\ DOMAIN lists[record_data[1]][1] =
          {"timestamp", "speed", "distance", "grade"}

RECURSIVE AloneRows(_, _, _)
AloneRows(frames, i, data) ==
    IF i > Len(frames) THEN data
    ELSE AloneRows(frames, i + 1,
             IF IsRecord(frames[i])
             THEN AppendRow(data, get_record_data(frames[i]))
             ELSE data)

\* What a call returns for a file when nothing else runs.
AloneTable(f) ==
    rename(reset_index(DataFrame(AloneRows(f.frames, 1, <<>>),
                                 RECORD_COLUMN_NAMES)),
           "index", "second")

\* C8: with two calls interleaved in any way, each returned table is the
\* table its file gives when run alone, and a caller changing a row of its
\* table changes that table only.
C8_NoSharedState ==
    \A c \in Calls :
        /\ Returned(c) => Table(c) = AloneTable(fname[c])
        /\ pc[c] = "edited" =>
              \E i \in 1..Len(Table(c).rows) :
                  Table(c) =
                      [AloneTable(fname[c]) EXCEPT !.rows[i]["power"] = 999]

C8_Witness ==
    /\ pc[1] = "edited"
    /\ Returned(2)
    /\ fname[1] # fname[2]
    /\ Len(Table(1).rows) = 2
    /\ Len(Table(2).rows) = 2

\* C9: the file file_id, record A, record B, record C, event gives exactly
\* three rows, second 0, 1, 2, speed and grade null throughout, and the last
\* row null but for timestamp and power = 79.
C9_Scenario ==
    (Returned(1) /\ fname[1].frames = ScenarioFrames) =>
        Table(1).rows =
            << [second |-> 0, timestamp |-> 53, speed |-> -1, distance |-> 241,
                altitude |-> 62, power |-> 45, grade |-> -1, cadence |-> 24],
               [second |-> 1, timestamp |-> 53, speed |-> -1, distance |-> 428,
                altitude |-> 62, power |-> 45, grade |-> -1, cadence |-> 24],
               [second |-> 2, timestamp |-> 55, speed |-> -1, distance |-> -1,
                altitude |-> -1, power |-> 79, grade |-> -1, cadence |-> -1] >>

C9_Witness ==
    /\ Returned(1)
    /\ fname[1].frames = ScenarioFrames
    /\ Len(Table(1).rows) = 3

\* C10: the scan moves the read position forward by one message at a time
\* and only while streaming; once the stream is closed nothing more is
\* consumed and no row is appended; and every scan reaches closed.
C10_LinearScan ==
    /\ [][\A c \in Calls :
            /\ fit_file'[c].pos \in {fit_file[c].pos, fit_file[c].pos + 1}
            /\ fit_file'[c].pos # fit_file[c].pos =>
                  /\ fit_file[c].state = "streaming"
                  /\ fit_file[c].pos < Len(fname[c].frames)
            /\ fit_file[c].state = "closed" =>
                  /\ fit_file'[c] = fit_file[c]
                  /\ lists'[record_data[c]] = lists[record_data[c]]]_vars
    /\ \A c \in Calls :
          (fit_file[c].state = "streaming") ~> (fit_file[c].state = "closed")

C10_Witness ==
    /\ fit_file[1].state = "closed"
    /\ fit_file[1].pos = Len(fname[1].frames)
    /\ fit_file[1].pos >= 3
    /\ pc[1] = "edited"

====
